---- MODULE Spec2Model ----
(***************************************************************************)
(* CarePilot AI: the rule-based risk flags, the next-step suggestions and  *)
(* the summary of src/app.py, over the four tables of the SQLite store.    *)
(*                                                                         *)
(* Conventions of the model                                                *)
(*  - an instant is an integer number of half days; the calendar date of   *)
(*    an instant t (SQLite date(t)) is t \div 2, and "n day" is 2*n;       *)
(*  - a Python str that the code sorts, splits or lower-cases is the tuple *)
(*    of its code points (<<77, 101>> is "Me"); a str that the code only   *)
(*    passes on or compares for equality is a TLA+ string;                 *)
(*  - a flag title is the tuple of its words, so that the code's           *)
(*    substring test ("Missed medications" in t) is a computation;         *)
(*  - a table is a bag of rows: the code never reads a row id, and where   *)
(*    the order of equal ORDER BY keys matters the query returns any of    *)
(*    the orders SQLite may produce;                                       *)
(*    a statement run again on the unchanged store returns its rows in     *)
(*    the order it returned them before;                                   *)
(*  - a table holds any rows its schema admits: symptoms, symptom_severity *)
(*    and caregiver_stress may be NULL, and a date may lie after the       *)
(*    evaluation date (the check-in and appointment forms take any date;   *)
(*    log_date is the server's local date.today(), the queries compare it  *)
(*    with the UTC date('now'));                                           *)
(*  - the engine reads the clock only through 'now' in its queries: a call *)
(*    is made at an instant now, the same for all its queries.             *)
(***************************************************************************)
EXTENDS Integers, Sequences, FiniteSets, Bags, TLC

VARIABLES
    medications,   \* table medications: sequence of rows, id = index
    med_log,       \* table med_log: bag of rows
    appointments,  \* table appointments: bag of rows
    checkins,      \* table checkins: bag of rows
    out            \* the last call of the engine: its arguments, the rows
                   \* its ordered queries returned (last3, up, upcoming; the
                   \* first and the last row of checks), its return value,
                   \* and for a second call what the first returned

vars == <<medications, med_log, appointments, checkins, out>>

-----------------------------------------------------------------------------
(* Values *)

\* SQL NULL / Python None in a nullable column
NULL == -1
\* float('nan'): what pandas puts for NULL in a numeric column that also
\* holds numbers
NaN == -2
\* a NULL TEXT value (checkins.symptoms)
NullText == <<NULL>>

\* bounds of the model
MaxMeds == 2
MaxLogs == 3
MaxAppts == 2
MaxCheckins == 4
MaxFlags == 2

\* thresholds and windows of the rules
MissedWindowDays == 3
TrendRise == 3
HighSeverity == 7
BurnoutStress == 8
ElevatedStress == 6
WeekDays == 7
SummaryTrendRise == 3
SummaryTrendDrop == 3
HighStress == 8
FlagApptDays == 2
SummaryApptDays == 14
MaxKeywords == 6

\* date(x) of an instant; date('now', '-n day') and datetime('now', '+n day')
DateOf(t) == t \div 2
Days(n) == 2 * n

-----------------------------------------------------------------------------
(* Python str operations on code-point tuples *)

\* a < b for Python str (lexicographic by code point)
StrLess(a, b) ==
    \/ /\ Len(a) < Len(b)
       /\ \A i \in 1..Len(a) : a[i] = b[i]
    \/ \E i \in 1..Len(a) :
          /\ i <= Len(b)
          /\ a[i] < b[i]
          /\ \A j \in 1..(i - 1) : a[j] = b[j]

\* sorted(S) for a set S of str
RECURSIVE SortedStrs(_)
SortedStrs(S) ==
    IF S = {} THEN <<>>
    ELSE LET m == CHOOSE x \in S : \A y \in S \ {x} : StrLess(x, y)
         IN  <<m>> \o SortedStrs(S \ {m})

\* s[:n]
Prefix(s, n) == SubSeq(s, 1, IF Len(s) < n THEN Len(s) ELSE n)

IsSpace(c) == c \in {9, 10, 11, 12, 13, 32}

\* s.strip()
RECURSIVE LStrip(_)
LStrip(s) == IF s # <<>> /\ IsSpace(Head(s)) THEN LStrip(Tail(s)) ELSE s

RECURSIVE RStrip(_)
RStrip(s) ==
    IF s # <<>> /\ IsSpace(s[Len(s)]) THEN RStrip(SubSeq(s, 1, Len(s) - 1)) ELSE s

Strip(s) == RStrip(LStrip(s))

\* s.lower() (ASCII)
Lower(s) == [i \in 1..Len(s) |-> IF s[i] >= 65 /\ s[i] <= 90 THEN s[i] + 32 ELSE s[i]]

\* s.replace(";", ",")
ReplaceSemicolon(s) == [i \in 1..Len(s) |-> IF s[i] = 59 THEN 44 ELSE s[i]]

\* s.split(","): the list of the pieces between commas
RECURSIVE SplitComma(_)
SplitComma(s) ==
    IF \A i \in 1..Len(s) : s[i] # 44 THEN <<s>>
    ELSE LET k == CHOOSE i \in 1..Len(s) : s[i] = 44 /\ \A j \in 1..(i - 1) : s[j] # 44
         IN  <<SubSeq(s, 1, k - 1)>> \o SplitComma(SubSeq(s, k + 1, Len(s)))

\* needle in t, on tuples of words
Contains(t, needle) ==
    \E i \in 0..(Len(t) - Len(needle)) :
        \A j \in 1..Len(needle) : t[i + j] = needle[j]

\* round(num / den) of Python 3: to nearest, a tie to the even neighbour
RoundDiv(num, den) ==
    LET q == num \div den
        r == num % den
    IN  IF 2 * r < den THEN q
        ELSE IF 2 * r > den THEN q + 1
        ELSE IF q % 2 = 0 THEN q ELSE q + 1

-----------------------------------------------------------------------------
(* The store *)

Recipients == {1, 2}

Idle == [op |-> "none"]

Init ==
    /\ medications = <<>>
    /\ med_log = EmptyBag
    /\ appointments = EmptyBag
    /\ checkins = EmptyBag
    /\ out = Idle

\* INSERT INTO medications
AddMedication(rows) ==
    /\ out = Idle
    /\ Len(medications) < MaxMeds
    /\ \E m \in rows : medications' = Append(medications, m)
    /\ UNCHANGED <<med_log, appointments, checkins, out>>

\* INSERT INTO med_log, for a medication of the table
InsertMedLog(dates, statuses) ==
    /\ out = Idle
    /\ BagCardinality(med_log) < MaxLogs
    /\ \E id \in 1..Len(medications), d \in dates, s \in statuses :
          med_log' = med_log (+) SetToBag({[medication_id |-> id, log_date |-> d, status |-> s]})
    /\ UNCHANGED <<medications, appointments, checkins, out>>

\* INSERT INTO appointments
InsertAppointment(rows) ==
    /\ out = Idle
    /\ BagCardinality(appointments) < MaxAppts
    /\ \E a \in rows : appointments' = appointments (+) SetToBag({a})
    /\ UNCHANGED <<medications, med_log, checkins, out>>

\* INSERT INTO checkins
InsertCheckin(rows) ==
    /\ out = Idle
    /\ BagCardinality(checkins) < MaxCheckins
    /\ \E c \in rows : checkins' = checkins (+) SetToBag({c})
    /\ UNCHANGED <<medications, med_log, appointments, out>>

-----------------------------------------------------------------------------
(* Queries (query_df) *)

\* the rows S of table B, each as often as B holds it
Select(B, S) == [r \in S |-> B[r]]

RemoveRow(B, r) == B (-) SetToBag({r})

\* ORDER BY date(checkin_date) ASC: every order of the rows of B that SQLite
\* may return (rows of one date come in any order)
RECURSIVE OrderByDateAsc(_)
OrderByDateAsc(B) ==
    IF BagToSet(B) = {} THEN {<<>>}
    ELSE UNION {{<<r>> \o s : s \in OrderByDateAsc(RemoveRow(B, r))} :
                r \in {x \in BagToSet(B) :
                          \A y \in BagToSet(B) : x.checkin_date <= y.checkin_date}}

\* ORDER BY date(checkin_date) DESC
RECURSIVE OrderByDateDesc(_)
OrderByDateDesc(B) ==
    IF BagToSet(B) = {} THEN {<<>>}
    ELSE UNION {{<<r>> \o s : s \in OrderByDateDesc(RemoveRow(B, r))} :
                r \in {x \in BagToSet(B) :
                          \A y \in BagToSet(B) : x.checkin_date >= y.checkin_date}}

\* pandas' column of a nullable INTEGER column: all NULL stays None (dtype
\* object); NULL among numbers becomes NaN (dtype float64)
PandasColumn(vals) ==
    IF \A i \in 1..Len(vals) : vals[i] = NULL THEN vals
    ELSE [i \in 1..Len(vals) |-> IF vals[i] = NULL THEN NaN ELSE vals[i]]

\* a >= b in Python, for numbers and NaN
PyGe(a, b) == a # NaN /\ b # NaN /\ a >= b

\* med_log JOIN medications, status 'missed', date(log_date) >= date('now','-3 day')
QueryMissed(rid, now) ==
    LET Match(r) == /\ medications[r.medication_id].recipient_id = rid
                    /\ r.status = "missed"
                    /\ r.log_date >= DateOf(now) - MissedWindowDays
    IN  Select(med_log, {x \in BagToSet(med_log) : Match(x)})

\* the check-ins of the recipient, ORDER BY date DESC LIMIT 3
QueryLast3(rid) ==
    LET Match(c) == c.recipient_id = rid
        mine == Select(checkins, {x \in BagToSet(checkins) : Match(x)})
    IN  {Prefix(s, 3) : s \in OrderByDateDesc(mine)}

\* caregiver_stress IS NOT NULL, date(checkin_date) >= date('now','-7 day')
QueryStress(rid, now) ==
    LET Match(c) == /\ c.recipient_id = rid
                    /\ c.caregiver_stress # NULL
                    /\ c.checkin_date >= DateOf(now) - WeekDays
    IN  Select(checkins, {x \in BagToSet(checkins) : Match(x)})

\* QueryUpcoming without the upper bound of the window
QueryUpcoming_NoUpperBound(rid, now, n) ==
    LET Match(a) == /\ a.recipient_id = rid
                    /\ a.appt_datetime >= now
        S == BagToSet(Select(appointments, {x \in BagToSet(appointments) : Match(x)}))
    IN  IF S = {} THEN {<<>>}
        ELSE {<<a>> : a \in {x \in S : \A y \in S : x.appt_datetime <= y.appt_datetime}}

\* appointments from now to now + n days, ORDER BY datetime ASC LIMIT 1
QueryUpcoming(rid, now, n) ==
    LET Match(a) == /\ a.recipient_id = rid
                    /\ a.appt_datetime >= now
                    /\ a.appt_datetime <= now + Days(n)
        S == BagToSet(Select(appointments, {x \in BagToSet(appointments) : Match(x)}))
    IN  IF S = {} THEN {<<>>}
        ELSE {<<a>> : a \in {x \in S : \A y \in S : x.appt_datetime <= y.appt_datetime}}

-----------------------------------------------------------------------------
(* Rule-based risk flags *)

MissedTitle == <<"Missed", "medications", "recently">>
WorseningTitle == <<"Symptoms", "worsening", "trend">>
SeverityTitle == <<"High", "symptom", "severity">>
BurnoutTitle == <<"Caregiver", "burnout", "risk">>
ApptTitle == <<"Upcoming", "appointment", "soon">>

Flag(level, title, detail) == [level |-> level, title |-> title, detail |-> detail]

\* f"{ap['appt_datetime']} - {provider} ({purpose})"
ApptText(ap) == <<ap.appt_datetime, ap.provider, ap.purpose>>

MissedFlags(rid, now) ==
    LET missed == QueryMissed(rid, now)
        meds == SortedStrs({medications[r.medication_id].med_name : r \in BagToSet(missed)})
    IN  IF BagToSet(missed) # {}
        THEN <<Flag("High", MissedTitle, <<"Missed med(s) in last 3 days: ", meds>>)>>
        ELSE <<>>

\* SymptomFlags without the test that the severities never fall
SymptomFlags_RiseOnly(last3) ==
    IF Len(last3) = 3
    THEN LET col == PandasColumn([i \in 1..3 |-> last3[i].symptom_severity])
             sev == [i \in 1..3 |-> col[4 - i]]
         IN  IF \A i \in 1..3 : sev[i] # NULL
             THEN IF sev[3] # NaN /\ sev[1] # NaN /\ sev[3] - sev[1] >= TrendRise
                  THEN <<Flag("High", WorseningTitle, <<"Severity rose", sev[1], sev[3]>>)>>
                  ELSE IF PyGe(sev[3], HighSeverity)
                  THEN <<Flag("Medium", SeverityTitle, <<"Latest symptom severity", sev[3]>>)>>
                  ELSE <<>>
             ELSE <<>>
    ELSE <<>>

SymptomFlags(last3) ==
    IF Len(last3) = 3
    THEN LET col == PandasColumn([i \in 1..3 |-> last3[i].symptom_severity])
             sev == [i \in 1..3 |-> col[4 - i]]
         IN  IF \A i \in 1..3 : sev[i] # NULL
             THEN IF /\ PyGe(sev[3], sev[2])
                     /\ PyGe(sev[2], sev[1])
                     /\ PyGe(sev[3] - sev[1], TrendRise)
                  THEN <<Flag("High", WorseningTitle, <<"Severity rose", sev[1], sev[3]>>)>>
                  ELSE IF PyGe(sev[3], HighSeverity)
                  THEN <<Flag("Medium", SeverityTitle, <<"Latest symptom severity", sev[3]>>)>>
                  ELSE <<>>
             ELSE <<>>
    ELSE <<>>

StressFlags(rid, now) ==
    LET stress == BagToSet(QueryStress(rid, now))
    IN  IF stress # {} /\ \E c \in stress : c.caregiver_stress >= BurnoutStress
        THEN <<Flag("Medium", BurnoutTitle, <<"Stress hit 8+ in the last 7 days.">>)>>
        ELSE <<>>

ApptFlags(upcoming) ==
    IF upcoming # <<>>
    THEN <<Flag("Low", ApptTitle, ApptText(upcoming[1]))>>
    ELSE <<>>

\* generate_risk_flags with the appointment rule evaluated first
generate_risk_flags_ApptFirst(rid, now, last3, upcoming) ==
    ApptFlags(upcoming) \o MissedFlags(rid, now) \o SymptomFlags(last3) \o StressFlags(rid, now)

\* generate_risk_flags(recipient_id) at instant now; last3 and upcoming are
\* the rows its two ordered queries returned
generate_risk_flags(rid, now, last3, upcoming) ==
    MissedFlags(rid, now) \o SymptomFlags(last3) \o StressFlags(rid, now) \o ApptFlags(upcoming)

-----------------------------------------------------------------------------
(* Next-step suggestions *)

\* (the dash of "2-3 days" is an en dash in the source)
MedActions ==
    << "Review medication schedule and set a double reminder (alarm + checklist).",
       "Ask a family member to confirm meds for the next 2-3 days." >>
TrendActions ==
    << "Contact the provider/clinic and describe the symptom trend using your logs.",
       "Write down: when symptoms started, what changed, and what helps." >>
BurnoutActions == << "Delegate one task this week and schedule a daily recovery break." >>
ApptActions == << "Prepare 3 questions and bring a med list + symptom timeline." >>
Fallback == "No urgent risks flagged. Keep logging check-ins to improve trend detection."

\* any(needle in t for t in titles)
AnyTitle(flags, needle) == \E i \in 1..Len(flags) : Contains(flags[i].title, needle)

\* "High" in levels
AnyHigh(flags) == \E i \in 1..Len(flags) : flags[i].level = "High"

\* next_step_suggestions with the fallback appended whatever was suggested
next_step_suggestions_AlwaysFallback(flags) ==
    (IF AnyHigh(flags) /\ AnyTitle(flags, <<"Missed", "medications">>)
     THEN MedActions ELSE <<>>)
    \o (IF AnyHigh(flags) /\ AnyTitle(flags, WorseningTitle) THEN TrendActions ELSE <<>>)
    \o (IF AnyTitle(flags, BurnoutTitle) THEN BurnoutActions ELSE <<>>)
    \o (IF AnyTitle(flags, ApptTitle) THEN ApptActions ELSE <<>>)
    \o <<Fallback>>

next_step_suggestions(flags) ==
    LET suggestions ==
            (IF AnyHigh(flags) /\ AnyTitle(flags, <<"Missed", "medications">>)
             THEN MedActions ELSE <<>>)
         \o (IF AnyHigh(flags) /\ AnyTitle(flags, WorseningTitle)
             THEN TrendActions ELSE <<>>)
         \o (IF AnyTitle(flags, BurnoutTitle) THEN BurnoutActions ELSE <<>>)
         \o (IF AnyTitle(flags, ApptTitle) THEN ApptActions ELSE <<>>)
    IN  IF suggestions = <<>> THEN <<Fallback>> ELSE suggestions

-----------------------------------------------------------------------------
(* Summary *)

\* CountStatus over the last 2 days
CountStatus_Last2Days(rid, now, status) ==
    LET Match(r) == /\ medications[r.medication_id].recipient_id = rid
                    /\ r.log_date >= DateOf(now) - 2
                    /\ r.status = status
    IN  BagCardinality(Select(med_log, {x \in BagToSet(med_log) : Match(x)}))

\* med_log JOIN medications, date(log_date) >= date('now','-7 day'),
\* GROUP BY status: the COUNT(*) of one status
CountStatus(rid, now, status) ==
    LET Match(r) == /\ medications[r.medication_id].recipient_id = rid
                    /\ r.log_date >= DateOf(now) - WeekDays
                    /\ r.status = status
    IN  BagCardinality(Select(med_log, {x \in BagToSet(med_log) : Match(x)}))

\* the check-ins of the recipient with date(checkin_date) >= date('now','-7 day'),
\* ORDER BY date ASC
QueryChecks(rid, now) ==
    LET Match(c) == /\ c.recipient_id = rid
                    /\ c.checkin_date >= DateOf(now) - WeekDays
    IN  OrderByDateAsc(Select(checkins, {x \in BagToSet(checkins) : Match(x)}))

\* int(v) if pd.notna(v) else None
IntOrNone(v) == IF v # NULL THEN v ELSE NULL

\* int(checks["caregiver_stress"].max()) if any is not NULL, else None
MaxStress(checks) ==
    LET vals == {checks[i].caregiver_stress : i \in 1..Len(checks)} \ {NULL}
    IN  IF vals # {} THEN CHOOSE m \in vals : \A v \in vals : v <= m ELSE NULL

\* the stripped, lower-cased, non-empty pieces of one symptoms text
Keywords(text) ==
    LET pieces == SplitComma(ReplaceSemicolon(text))
    IN  {Lower(Strip(pieces[i])) : i \in 1..Len(pieces)} \ {<<>>}

\* sorted(set(symptom_keywords))[:6] over checks["symptoms"].dropna()
SymptomKeywords(checks) ==
    LET texts == {checks[i].symptoms : i \in 1..Len(checks)} \ {NullText}
    IN  Prefix(SortedStrs(UNION {Keywords(t) : t \in texts}), MaxKeywords)

\* StatusOf with a Low flag counted like a Medium one
StatusOf_LowCounts(flags) ==
    IF \E i \in 1..Len(flags) : flags[i].level = "High" THEN "Needs Attention"
    ELSE IF \E i \in 1..Len(flags) : flags[i].level \in {"Medium", "Low"} THEN "Watch"
    ELSE "Stable"

StatusOf(flags) ==
    IF \E i \in 1..Len(flags) : flags[i].level = "High" THEN "Needs Attention"
    ELSE IF \E i \in 1..Len(flags) : flags[i].level = "Medium" THEN "Watch"
    ELSE "Stable"

AdherenceLine(adherence_rate, taken, missed) ==
    IF adherence_rate = NULL
    THEN <<"Medication adherence: No logs in the last 7 days.">>
    ELSE <<"Medication adherence: % (Taken, Missed) over last 7 days.",
           adherence_rate, taken, missed>>

TrendOf(earliest_sev, latest_sev) ==
    IF earliest_sev # NULL /\ latest_sev - earliest_sev >= SummaryTrendRise THEN "worsening"
    ELSE IF earliest_sev # NULL /\ latest_sev - earliest_sev <= -SummaryTrendDrop
    THEN "improving"
    ELSE "stable"

SymptomLines(earliest_sev, latest_sev, symptom_keywords) ==
    IF latest_sev = NULL
    THEN << <<"Symptoms: No check-ins in the last 7 days.">> >>
    ELSE << <<"Symptoms: Latest severity /10; trend is", latest_sev,
              TrendOf(earliest_sev, latest_sev)>> >>
         \o (IF symptom_keywords # <<>>
             THEN << <<"Common symptoms:", symptom_keywords>> >>
             ELSE <<>>)

\* StressLabel with "high" above 8 only
StressLabel_HighAbove8(max_stress) ==
    IF max_stress > HighStress THEN "high"
    ELSE IF max_stress >= ElevatedStress THEN "elevated"
    ELSE "manageable"

StressLabel(max_stress) ==
    IF max_stress >= HighStress THEN "high"
    ELSE IF max_stress >= ElevatedStress THEN "elevated"
    ELSE "manageable"

StressLine(max_stress) ==
    IF max_stress = NULL
    THEN <<"Caregiver stress: No stress check-ins in last 7 days.">>
    ELSE <<"Caregiver stress: Peak /10", max_stress, StressLabel(max_stress)>>

ApptLine(up) ==
    IF up # <<>>
    THEN <<"Upcoming appointment:", ApptText(up[1])>>
    ELSE <<"Upcoming appointment: None in next 14 days.">>

\* build_ai_summary(recipient_id) at instant now; checks, up, last3 and
\* upcoming are the rows the ordered queries returned
build_ai_summary(rid, now, checks, up, last3, upcoming) ==
    LET taken == CountStatus(rid, now, "taken")
        missed == CountStatus(rid, now, "missed")
        total_logs == taken + missed
        adherence_rate == IF total_logs > 0 THEN RoundDiv(taken * 100, total_logs) ELSE NULL
        earliest_sev == IF checks # <<>> THEN IntOrNone(checks[1].symptom_severity) ELSE NULL
        latest_sev == IF checks # <<>> THEN IntOrNone(checks[Len(checks)].symptom_severity)
                      ELSE NULL
        max_stress == IF checks # <<>> THEN MaxStress(checks) ELSE NULL
        symptom_keywords == IF checks # <<>> THEN SymptomKeywords(checks) ELSE <<>>
        flags == generate_risk_flags(rid, now, last3, upcoming)
        status == StatusOf(flags)
    IN  [ summary_lines |->
              << <<"Overall status:", status>>,
                 AdherenceLine(adherence_rate, taken, missed) >>
              \o SymptomLines(earliest_sev, latest_sev, symptom_keywords)
              \o << StressLine(max_stress), ApptLine(up) >>,
          actions |-> next_step_suggestions(flags),
          flags |-> flags,
          status |-> status,
          adherence_rate |-> adherence_rate,
          taken |-> taken,
          missed |-> missed,
          latest_sev |-> latest_sev,
          max_stress |-> max_stress ]

-----------------------------------------------------------------------------
(* Calls of the engine *)

\* evaluation instants: the second half of day 8 and the first half of day 9
Nows == {17, 18}

\* the caller has rendered what the last call returned (the script run ends)
Return ==
    /\ out # Idle
    /\ out' = Idle
    /\ UNCHANGED <<medications, med_log, appointments, checkins>>

\* generate_risk_flags(rid) is called at instant now
GenerateRiskFlags ==
    /\ out = Idle
    /\ \E rid \in Recipients, now \in Nows :
       \E last3 \in QueryLast3(rid), upcoming \in QueryUpcoming(rid, now, FlagApptDays) :
          out' = [ op |-> "generate_risk_flags", recipient_id |-> rid, now |-> now,
                   last3 |-> last3, upcoming |-> upcoming,
                   ret |-> generate_risk_flags(rid, now, last3, upcoming) ]
    /\ UNCHANGED <<medications, med_log, appointments, checkins>>

\* the first and the last row of a query's result (iloc[0], iloc[-1])
Ends(rows) == IF rows = <<>> THEN <<>> ELSE <<rows[1], rows[Len(rows)]>>

\* The rows the 2-day statement may return when the 14-day statement returned
\* up: the two statements differ in the upper bound only, and SQLite puts the
\* rows of equal appt_datetime in the same order for both, so that a row the
\* 2-day statement returns is the row the 14-day statement returned.
UpcomingGiven(rid, now, up) ==
    {u \in QueryUpcoming(rid, now, FlagApptDays) : u = <<>> \/ u = up}

\* build_ai_summary(rid) is called at instant now
BuildAiSummary ==
    /\ out = Idle
    /\ \E rid \in Recipients, now \in Nows :
       \E checks \in QueryChecks(rid, now), up \in QueryUpcoming(rid, now, SummaryApptDays),
          last3 \in QueryLast3(rid) :
       \E upcoming \in UpcomingGiven(rid, now, up) :
          out' = [ op |-> "build_ai_summary", recipient_id |-> rid, now |-> now,
                   last3 |-> last3, checks |-> Ends(checks),
                   up |-> up, upcoming |-> upcoming,
                   ret |-> build_ai_summary(rid, now, checks, up, last3, upcoming) ]
    /\ UNCHANGED <<medications, med_log, appointments, checkins>>

\* generate_risk_flags(rid) is called again at the same instant, the store as
\* the call that out holds left it: run again on the unchanged file, each
\* statement returns the rows it returned, in the order it returned them
GenerateRiskFlagsAgain ==
    /\ out.op = "generate_risk_flags"
    /\ "first" \notin DOMAIN out
    /\ \E last3 \in QueryLast3(out.recipient_id),
          upcoming \in QueryUpcoming(out.recipient_id, out.now, FlagApptDays) :
          /\ last3 = out.last3
          /\ upcoming = out.upcoming
          /\ out' = [ op |-> "generate_risk_flags", recipient_id |-> out.recipient_id,
                      now |-> out.now, last3 |-> last3, upcoming |-> upcoming,
                      ret |-> generate_risk_flags(out.recipient_id, out.now, last3, upcoming),
                      first |-> out.ret ]
    /\ UNCHANGED <<medications, med_log, appointments, checkins>>

\* BuildAiSummaryAgain with the rows of equal ORDER BY keys in any order
BuildAiSummaryAgain_NewOrder ==
    /\ out.op = "build_ai_summary"
    /\ "first" \notin DOMAIN out
    /\ \E checks \in QueryChecks(out.recipient_id, out.now),
          up \in QueryUpcoming(out.recipient_id, out.now, SummaryApptDays),
          last3 \in QueryLast3(out.recipient_id) :
       \E upcoming \in UpcomingGiven(out.recipient_id, out.now, up) :
          out' = [ op |-> "build_ai_summary", recipient_id |-> out.recipient_id,
                   now |-> out.now, last3 |-> last3, checks |-> Ends(checks),
                   up |-> up, upcoming |-> upcoming,
                   ret |-> build_ai_summary(out.recipient_id, out.now, checks, up,
                                            last3, upcoming),
                   first |-> out.ret ]
    /\ UNCHANGED <<medications, med_log, appointments, checkins>>

\* build_ai_summary(rid) is called again at the same instant, the store as the
\* call that out holds left it (the dashboard is rendered again)
BuildAiSummaryAgain ==
    /\ out.op = "build_ai_summary"
    /\ "first" \notin DOMAIN out
    /\ \E checks \in QueryChecks(out.recipient_id, out.now),
          up \in QueryUpcoming(out.recipient_id, out.now, SummaryApptDays),
          last3 \in QueryLast3(out.recipient_id) :
       \E upcoming \in UpcomingGiven(out.recipient_id, out.now, up) :
          /\ Ends(checks) = out.checks
          /\ up = out.up
          /\ last3 = out.last3
          /\ upcoming = out.upcoming
          /\ out' = [ op |-> "build_ai_summary", recipient_id |-> out.recipient_id,
                      now |-> out.now, last3 |-> last3, checks |-> Ends(checks),
                      up |-> up, upcoming |-> upcoming,
                      ret |-> build_ai_summary(out.recipient_id, out.now, checks, up,
                                               last3, upcoming),
                      first |-> out.ret ]
    /\ UNCHANGED <<medications, med_log, appointments, checkins>>

\* next_step_suggestions(flags) is called with a flag list
NextStepSuggestions(lists) ==
    /\ out = Idle
    /\ \E flags \in lists :
          out' = [ op |-> "next_step_suggestions", flags |-> flags,
                   ret |-> next_step_suggestions(flags) ]
    /\ UNCHANGED <<medications, med_log, appointments, checkins>>

-----------------------------------------------------------------------------
(* Inputs *)

\* "As", "Me": medication names
NameAs == <<65, 115>>
NameMe == <<77, 101>>

Medication(rid, name) == [recipient_id |-> rid, med_name |-> name]

Checkin(rid, d, text, sev, stress) ==
    [ recipient_id |-> rid, checkin_date |-> d, symptoms |-> text,
      symptom_severity |-> sev, caregiver_stress |-> stress ]

Appointment(rid, t, provider, purpose) ==
    [recipient_id |-> rid, appt_datetime |-> t, provider |-> provider, purpose |-> purpose]

\* calendar dates: 7/8, 3/4 and -1/0 days before the two evaluation dates
Dates == {1, 5, 9}

\* the whole engine, on few kinds of rows
CoreMedications == {Medication(1, NameMe)}
CoreLogDates == {9}
CoreStatuses == {"missed"}
CoreCheckins ==
    { Checkin(1, 5, NullText, 3, NULL),
      Checkin(1, 9, NullText, 6, NULL),
      Checkin(1, 9, NullText, 9, 8) }
CoreAppointments == {Appointment(1, 18, "Dr. Smith", "Follow-up")}

Next ==
    \/ AddMedication(CoreMedications)
    \/ InsertMedLog(CoreLogDates, CoreStatuses)
    \/ InsertAppointment(CoreAppointments)
    \/ InsertCheckin(CoreCheckins)
    \/ GenerateRiskFlags
    \/ BuildAiSummary
    \/ GenerateRiskFlagsAgain
    \/ BuildAiSummaryAgain
    \/ Return

Spec == Init /\ [][Next]_vars

\* the appointment rule and line: appointments before now, at now, at the end
\* of the 2-day and of the 14-day window and after it; two at one time
ApptTimes == {16, 18, 20, 22, 23, 46, 47}

ApptAppointments ==
    {Appointment(1, t, "Dr. Smith", "Follow-up") : t \in ApptTimes}
        \cup {Appointment(1, 20, "Dr. Jones", "Check-up"),
              Appointment(2, 18, "Dr. Smith", "Follow-up")}

NextAppts ==
    \/ InsertAppointment(ApptAppointments)
    \/ GenerateRiskFlags
    \/ BuildAiSummary
    \/ Return

SpecAppts == Init /\ [][NextAppts]_vars

\* the symptom rules, on check-ins of every date and severity
TrendCheckins ==
    {Checkin(1, d, NullText, sev, NULL) : d \in {1, 9}, sev \in {NULL, 3, 6, 7, 9}}
        \cup {Checkin(2, 9, NullText, 9, NULL)}

NextTrend ==
    \/ InsertCheckin(TrendCheckins)
    \/ GenerateRiskFlags
    \/ BuildAiSummary
    \/ Return

SpecTrend == Init /\ [][NextTrend]_vars

\* the stress rule, on check-ins of every date and stress
StressCheckins ==
    {Checkin(1, d, NullText, NULL, stress) : d \in {1, 9}, stress \in {NULL, 5, 7, 8}}
        \cup {Checkin(2, 9, NullText, NULL, 8)}

NextStress ==
    \/ InsertCheckin(StressCheckins)
    \/ GenerateRiskFlags
    \/ BuildAiSummary
    \/ Return

SpecStress == Init /\ [][NextStress]_vars

\* symptoms texts: "", "b, A", "a;c ; ", "g,f,e,d,c,b,a"
TextEmpty == <<>>
TextBA == <<98, 44, 32, 65>>
TextAC == <<97, 59, 99, 32, 59, 32>>
TextSeven == <<103, 44, 102, 44, 101, 44, 100, 44, 99, 44, 98, 44, 97>>

\* the symptoms lines, on check-ins with and without severity and text
KeywordCheckins ==
    {Checkin(1, d, text, sev, NULL) :
        d \in {1, 9}, text \in {NullText, TextEmpty, TextBA, TextAC}, sev \in {NULL, 5}}
        \cup {Checkin(1, 9, TextSeven, 5, NULL)}

NextKeywords ==
    \/ InsertCheckin(KeywordCheckins)
    \/ BuildAiSummary
    \/ Return

SpecKeywords == Init /\ [][NextKeywords]_vars

\* the medication rules, on logs of every date and status
MedMedications == {Medication(1, NameAs), Medication(1, NameMe), Medication(2, NameAs)}

NextMeds ==
    \/ AddMedication(MedMedications)
    \/ InsertMedLog(Dates, {"taken", "missed"})
    \/ GenerateRiskFlags
    \/ BuildAiSummary
    \/ Return

SpecMeds == Init /\ [][NextMeds]_vars

\* next_step_suggestions, on every list of at most MaxFlags flags
FlagInputs ==
    { Flag(level, title, <<>>) :
        level \in {"High", "Medium", "Low"},
        title \in { MissedTitle, WorseningTitle, SeverityTitle, BurnoutTitle, ApptTitle,
                    <<"Other">> } }

RECURSIVE SeqsUpTo(_, _)
SeqsUpTo(S, n) ==
    IF n = 0 THEN {<<>>}
    ELSE LET shorter == SeqsUpTo(S, n - 1)
         IN  shorter \cup {Append(s, x) : s \in shorter, x \in S}

NextSuggest ==
    \/ NextStepSuggestions(SeqsUpTo(FlagInputs, MaxFlags))
    \/ Return

SpecSuggest == Init /\ [][NextSuggest]_vars

-----------------------------------------------------------------------------
(* Properties *)

IsCall == out.op \in {"generate_risk_flags", "build_ai_summary"}

\* the flags the last call returned
FlagsOut == IF out.op = "build_ai_summary" THEN out.ret.flags ELSE out.ret

HasLevel(flags, level) == \E i \in 1..Len(flags) : flags[i].level = level

HasFlag(flags, level, title) ==
    \E i \in 1..Len(flags) : flags[i].level = level /\ flags[i].title = title

HasTitle(flags, title) == \E i \in 1..Len(flags) : flags[i].title = title

\* the calendar date of the evaluation
Today == DateOf(out.now)

\* the check-ins of the recipient of the call, as a bag
RecipientCheckins ==
    [c \in {x \in DOMAIN checkins : x.recipient_id = out.recipient_id} |-> checkins[c]]

RECURSIVE SeqToBag(_)
SeqToBag(s) == IF s = <<>> THEN EmptyBag ELSE SetToBag({Head(s)}) (+) SeqToBag(Tail(s))

\* rows are the (at most 3) most recent check-ins of the recipient, newest first
MostRecent3(rows) ==
    LET n == BagCardinality(RecipientCheckins)
        rest == RecipientCheckins (-) SeqToBag(rows)
    IN  /\ Len(rows) = (IF n < 3 THEN n ELSE 3)
        /\ SeqToBag(rows) \sqsubseteq RecipientCheckins
        /\ \A i \in 1..(Len(rows) - 1) : rows[i].checkin_date >= rows[i + 1].checkin_date
        /\ \A r \in DOMAIN rest : \A i \in 1..Len(rows) : r.checkin_date <= rows[i].checkin_date

\* C1: the status build_ai_summary returns is "Needs Attention" iff a returned
\* flag is High, "Watch" iff none is High and one is Medium, "Stable"
\* otherwise, whatever Low flags there are; the first narrative line carries it.
C1_StatusFromLevels ==
    out.op = "build_ai_summary" =>
        LET flags == out.ret.flags
            status == out.ret.status
        IN  /\ status \in {"Needs Attention", "Watch", "Stable"}
            /\ status = "Needs Attention" <=> HasLevel(flags, "High")
            /\ status = "Watch" <=> ~HasLevel(flags, "High") /\ HasLevel(flags, "Medium")
            /\ status = "Stable" <=> ~HasLevel(flags, "High") /\ ~HasLevel(flags, "Medium")
            /\ out.ret.summary_lines[1] = <<"Overall status:", status>>

\* a summary with a Medium and a Low flag and no High flag, and status "Watch"
C1_Witness ==
    /\ out.op = "build_ai_summary"
    /\ HasLevel(out.ret.flags, "Medium")
    /\ HasLevel(out.ret.flags, "Low")
    /\ ~HasLevel(out.ret.flags, "High")
    /\ out.ret.status = "Watch"

\* C2: with at least 3 check-ins whose 3 most recent (by date, however old)
\* have severities s0 (oldest), s1, s2 (newest), none NULL: High "Symptoms
\* worsening trend" iff s0 <= s1 <= s2 and s2 - s0 >= 3; Medium "High symptom
\* severity" iff not so and s2 >= 7; never both. With fewer than 3 check-ins,
\* neither.
C2_SymptomRule ==
    IsCall =>
        LET rows == out.last3
            worsening == HasTitle(FlagsOut, WorseningTitle)
            severity == HasTitle(FlagsOut, SeverityTitle)
        IN  /\ MostRecent3(rows)
            /\ worsening => HasFlag(FlagsOut, "High", WorseningTitle)
            /\ severity => HasFlag(FlagsOut, "Medium", SeverityTitle)
            /\ ~(worsening /\ severity)
            /\ Len(rows) < 3 => ~worsening /\ ~severity
            /\ (Len(rows) = 3 /\ \A i \in 1..3 : rows[i].symptom_severity # NULL) =>
                  LET s0 == rows[3].symptom_severity
                      s1 == rows[2].symptom_severity
                      s2 == rows[1].symptom_severity
                      rising == s0 <= s1 /\ s1 <= s2 /\ s2 - s0 >= 3
                  IN  /\ worsening <=> rising
                      /\ severity <=> ~rising /\ s2 >= 7

\* four check-ins, the three most recent older than the 7-day window, flagged
\* as a worsening trend
C2_Witness ==
    /\ out.op = "generate_risk_flags"
    /\ BagCardinality(RecipientCheckins) >= 4
    /\ Len(out.last3) = 3
    /\ \A i \in 1..3 : out.last3[i].checkin_date < Today - WeekDays
    /\ HasFlag(out.ret, "High", WorseningTitle)

\* C3: if one of the 3 most recent check-ins has a NULL severity, neither
\* "Symptoms worsening trend" nor "High symptom severity" is emitted.
C3_NullSeveritySkipsRule ==
    (IsCall /\ Len(out.last3) = 3 /\ \E i \in 1..3 : out.last3[i].symptom_severity = NULL) =>
        /\ ~HasTitle(FlagsOut, WorseningTitle)
        /\ ~HasTitle(FlagsOut, SeverityTitle)

\* the med-log rows of the recipient's medications with the given status and
\* a log date from n days before the evaluation date to the evaluation date
LogsInLastDays(status, n) ==
    { r \in DOMAIN med_log :
        /\ medications[r.medication_id].recipient_id = out.recipient_id
        /\ r.status = status
        /\ r.log_date >= Today - n
        /\ r.log_date <= Today }

RECURSIVE CountRows(_, _)
CountRows(B, S) ==
    IF S = {} THEN 0
    ELSE LET r == CHOOSE x \in S : TRUE IN B[r] + CountRows(B, S \ {r})

\* s lists the elements of S once each, in ascending order
IsSortedListOf(s, S) ==
    /\ {s[i] : i \in 1..Len(s)} = S
    /\ \A i \in 1..(Len(s) - 1) : StrLess(s[i], s[i + 1])

\* C4: the High "Missed medications recently" flag is emitted iff a missed
\* entry of a medication of the recipient has a log date from 3 days before
\* the evaluation date to the evaluation date, and its detail lists the names
\* of the medications with such an entry once each, in alphabetical order.
C4_MissedWithinLast3Days ==
    IsCall =>
        LET rows == LogsInLastDays("missed", MissedWindowDays)
            names == {medications[r.medication_id].med_name : r \in rows}
        IN  /\ HasTitle(FlagsOut, MissedTitle) <=> rows # {}
            /\ HasTitle(FlagsOut, MissedTitle) => HasFlag(FlagsOut, "High", MissedTitle)
            /\ \A i \in 1..Len(FlagsOut) :
                  FlagsOut[i].title = MissedTitle =>
                      IsSortedListOf(FlagsOut[i].detail[2], names)

\* every action of the group is among the elements of the list
Includes(list, actions) ==
    \A k \in 1..Len(actions) : \E j \in 1..Len(list) : list[j] = actions[k]

\* C5: for every flag list, next_step_suggestions includes the two medication
\* actions iff the list holds a High flag titled "Missed medications recently",
\* and the two provider/symptom actions iff it holds a High flag titled
\* "Symptoms worsening trend".
C5_ActionsNeedHighTitledFlag ==
    out.op = "next_step_suggestions" =>
        /\ Includes(out.ret, MedActions) <=> HasFlag(out.flags, "High", MissedTitle)
        /\ Includes(out.ret, TrendActions) <=> HasFlag(out.flags, "High", WorseningTitle)

\* the four groups of actions, in the order of the rules
ActionGroups == <<MedActions, TrendActions, BurnoutActions, ApptActions>>

RECURSIVE Concat(_)
Concat(ss) == IF ss = <<>> THEN <<>> ELSE Head(ss) \o Concat(Tail(ss))

C7_AdherenceOverLast7Days ==
    out.op = "build_ai_summary" =>
        LET t == CountRows(med_log, LogsInLastDays("taken", WeekDays))
            m == CountRows(med_log, LogsInLastDays("missed", WeekDays))
            ret == out.ret
        IN  /\ ret.adherence_rate = NULL <=> (t = 0 /\ m = 0)
            /\ ret.adherence_rate = NULL =>
                  ret.summary_lines[2] = <<"Medication adherence: No logs in the last 7 days.">>
            /\ t + m > 0 =>
                  /\ ret.taken = t
                  /\ ret.missed = m
                  /\ ret.adherence_rate \in 0..100
                  /\ 2 * ret.adherence_rate * (t + m) >= 200 * t - (t + m)
                  /\ 2 * ret.adherence_rate * (t + m) <= 200 * t + (t + m)

\* the symptoms line of the narrative that reports severity and trend, if any
TrendLines ==
    { i \in 1..Len(out.ret.summary_lines) :
        out.ret.summary_lines[i][1] = "Symptoms: Latest severity /10; trend is" }

\* C8: the narrative reports a trend label only when the earliest and the
\* latest check-in of the 7-day window both have a severity; then the label is
\* "worsening" iff latest - earliest >= 3, "improving" iff latest - earliest
\* <= -3, else "stable".
C8_TrendOnlyWhenBothKnown ==
    out.op = "build_ai_summary" =>
        LET earliest == IF out.checks = <<>> THEN NULL ELSE out.checks[1].symptom_severity
            latest == IF out.checks = <<>> THEN NULL ELSE out.checks[2].symptom_severity
            known == earliest # NULL /\ latest # NULL
        IN  /\ TrendLines # {} => known
            /\ known =>
                  /\ TrendLines # {}
                  /\ \A i \in TrendLines :
                        LET label == out.ret.summary_lines[i][3]
                        IN  /\ label = "worsening" <=> latest - earliest >= 3
                            /\ label = "improving" <=> latest - earliest <= -3
                            /\ label = "stable" <=>
                                  (latest - earliest < 3 /\ latest - earliest > -3)

\* the check-ins of the recipient from 7 days before the evaluation date to
\* the evaluation date
CheckinsInLast7Days ==
    { c \in DOMAIN checkins :
        /\ c.recipient_id = out.recipient_id
        /\ c.checkin_date >= Today - WeekDays
        /\ c.checkin_date <= Today }

HasLine(template) ==
    \E i \in 1..Len(out.ret.summary_lines) : out.ret.summary_lines[i][1] = template

\* C9: the narrative has the line "Symptoms: No check-ins in the last 7 days."
\* iff the recipient has no check-in in the 7-day window; with a check-in in
\* the window, it has a "Common symptoms" line exactly when the check-ins of
\* the window yield a keyword, and the line lists at most 6 keywords, sorted.
C9_SymptomsLines ==
    out.op = "build_ai_summary" =>
        LET texts == {c.symptoms : c \in CheckinsInLast7Days} \ {NullText}
            keywords == UNION {Keywords(t) : t \in texts}
        IN  /\ HasLine("Symptoms: No check-ins in the last 7 days.") <=> CheckinsInLast7Days = {}
            /\ CheckinsInLast7Days # {} => (HasLine("Common symptoms:") <=> keywords # {})
            /\ \A i \in 1..Len(out.ret.summary_lines) :
                  out.ret.summary_lines[i][1] = "Common symptoms:" =>
                      LET listed == out.ret.summary_lines[i][2]
                      IN  /\ Len(listed) <= MaxKeywords
                          /\ \A k \in 1..Len(listed) : listed[k] \in keywords
                          /\ \A k \in 1..(Len(listed) - 1) : StrLess(listed[k], listed[k + 1])

\* C10: the Medium "Caregiver burnout risk" flag is emitted iff a check-in of
\* the recipient has a caregiver stress that is not NULL and >= 8 and a date
\* from 7 days before the evaluation date to the evaluation date.
C10_BurnoutWithinLast7Days ==
    IsCall =>
        /\ HasTitle(FlagsOut, BurnoutTitle) <=>
              \E c \in CheckinsInLast7Days :
                  c.caregiver_stress # NULL /\ c.caregiver_stress >= BurnoutStress
        /\ HasTitle(FlagsOut, BurnoutTitle) => HasFlag(FlagsOut, "Medium", BurnoutTitle)


-----------------------------------------------------------------------------
\* the appointments of the recipient of the call from now to now + n days
ApptsWithin(n) ==
    { a \in DOMAIN appointments :
        /\ a.recipient_id = out.recipient_id
        /\ a.appt_datetime >= out.now
        /\ a.appt_datetime <= out.now + Days(n) }

\* text gives the date-time, provider and purpose of an earliest appointment of S
DescribesEarliest(text, S) ==
    \E a \in S : /\ \A b \in S : a.appt_datetime <= b.appt_datetime
                 /\ text = <<a.appt_datetime, a.provider, a.purpose>>

\* the upcoming-appointment line of the summary
UpcomingLine == out.ret.summary_lines[Len(out.ret.summary_lines)]

\* C11: the returned flags hold the Low flag "Upcoming appointment soon" iff
\* the recipient has an appointment from now to now + 2 days, and its detail
\* describes the earliest of these, so none later than now + 2 days; the last
\* line of the summary describes the earliest appointment from now to
\* now + 14 days and is "None in next 14 days." iff there is none; with the
\* flag present, the line describes the appointment of the flag.
C11_AppointmentSelection ==
    IsCall =>
        /\ HasTitle(FlagsOut, ApptTitle) <=> ApptsWithin(2) # {}
        /\ \A i \in 1..Len(FlagsOut) :
              FlagsOut[i].title = ApptTitle =>
                  /\ FlagsOut[i].level = "Low"
                  /\ DescribesEarliest(FlagsOut[i].detail, ApptsWithin(2))
                  /\ FlagsOut[i].detail[1] <= out.now + Days(2)
        /\ out.op = "build_ai_summary" =>
              /\ UpcomingLine = <<"Upcoming appointment: None in next 14 days.">>
                    <=> ApptsWithin(14) = {}
              /\ ApptsWithin(14) # {} =>
                    /\ UpcomingLine[1] = "Upcoming appointment:"
                    /\ DescribesEarliest(UpcomingLine[2], ApptsWithin(14))
              /\ \A i \in 1..Len(FlagsOut) :
                    FlagsOut[i].title = ApptTitle => UpcomingLine[2] = FlagsOut[i].detail

\* a summary of a recipient with one appointment in the 2-day window and one
\* after it in the 14-day window: the flag and the line describe the first
C11_Witness ==
    /\ out.op = "build_ai_summary"
    /\ Cardinality(ApptsWithin(2)) = 1
    /\ Cardinality(ApptsWithin(14)) = 2
    /\ HasFlag(FlagsOut, "Low", ApptTitle)
    /\ UpcomingLine[1] = "Upcoming appointment:"
    /\ \E a \in ApptsWithin(2) :
          UpcomingLine[2] = <<a.appt_datetime, a.provider, a.purpose>>


-----------------------------------------------------------------------------
\* the place of a rule in the detection order, and the level of its flag
RuleOf(title) ==
    CASE title = MissedTitle -> 1
      [] title = WorseningTitle -> 2
      [] title = SeverityTitle -> 2
      [] title = BurnoutTitle -> 3
      [] title = ApptTitle -> 4
      [] OTHER -> 0

LevelOf(title) ==
    CASE title = MissedTitle -> "High"
      [] title = WorseningTitle -> "High"
      [] title = SeverityTitle -> "Medium"
      [] title = BurnoutTitle -> "Medium"
      [] title = ApptTitle -> "Low"
      [] OTHER -> "none"

\* C12: the flags a call returns hold at most one flag of each rule, in the
\* order missed medications, symptom flag (worsening or high severity),
\* caregiver burnout, upcoming appointment: at most 4 flags, no title twice,
\* and each title with its fixed level.
C12_OneFlagPerRuleInOrder ==
    IsCall =>
        /\ Len(FlagsOut) <= 4
        /\ \A i \in 1..Len(FlagsOut) :
              /\ RuleOf(FlagsOut[i].title) \in 1..4
              /\ FlagsOut[i].level = LevelOf(FlagsOut[i].title)
        /\ \A i, j \in 1..Len(FlagsOut) :
              i < j => /\ FlagsOut[i].title # FlagsOut[j].title
                       /\ RuleOf(FlagsOut[i].title) < RuleOf(FlagsOut[j].title)

\* a call that returns a flag of each of the four rules
C12_Witness ==
    /\ IsCall
    /\ Len(FlagsOut) = 4
    /\ FlagsOut[1].title = MissedTitle
    /\ FlagsOut[2].title \in {WorseningTitle, SeverityTitle}
    /\ FlagsOut[3].title = BurnoutTitle
    /\ FlagsOut[4].title = ApptTitle


-----------------------------------------------------------------------------
\* out holds the result of a second call, and the result of the first
IsSecondCall == IsCall /\ "first" \in DOMAIN out

-----------------------------------------------------------------------------
\* the stress line of the summary gives a peak, with this label
StressLabelIs(label) ==
    \E i \in 1..Len(out.ret.summary_lines) :
        /\ out.ret.summary_lines[i][1] = "Caregiver stress: Peak /10"
        /\ out.ret.summary_lines[i][3] = label

\* C14: the flags of a summary hold "Caregiver burnout risk" iff its peak
\* stress is known and at least 8, iff its stress line has the label "high";
\* a summary whose stress label is "high" does not have the status "Stable".
C14_BurnoutFlagIffHighPeak ==
    out.op = "build_ai_summary" =>
        /\ HasTitle(out.ret.flags, BurnoutTitle)
              <=> (out.ret.max_stress # NULL /\ out.ret.max_stress >= 8)
        /\ HasTitle(out.ret.flags, BurnoutTitle) <=> StressLabelIs("high")
        /\ StressLabelIs("high") => out.ret.status # "Stable"

\* a summary with peak stress 8: the flag, the label "high", the status Watch
C14_Witness ==
    /\ out.op = "build_ai_summary"
    /\ out.ret.max_stress = 8
    /\ HasFlag(out.ret.flags, "Medium", BurnoutTitle)
    /\ StressLabelIs("high")
    /\ out.ret.status = "Watch"


-----------------------------------------------------------------------------
\* C15: a summary whose flags hold "Missed medications recently" has a missed
\* count of at least 1, a known adherence_rate, an adherence line that is not
\* the no-logs line, and the status "Needs Attention".
C15_MissedFlagAgreesWithSummary ==
    (out.op = "build_ai_summary" /\ HasTitle(out.ret.flags, MissedTitle)) =>
        /\ out.ret.missed >= 1
        /\ out.ret.adherence_rate # NULL
        /\ ~HasLine("Medication adherence: No logs in the last 7 days.")
        /\ HasLine("Medication adherence: % (Taken, Missed) over last 7 days.")
        /\ out.ret.status = "Needs Attention"

\* a summary with the flag, where an entry of the 7-day window lies before the
\* 3-day window and another recipient has entries too
C15_Witness ==
    /\ out.op = "build_ai_summary"
    /\ HasFlag(out.ret.flags, "High", MissedTitle)
    /\ out.ret.missed = 1
    /\ out.ret.taken = 1
    /\ out.ret.adherence_rate = 50
    /\ out.ret.status = "Needs Attention"
    /\ \E r \in DOMAIN med_log :
          /\ medications[r.medication_id].recipient_id = out.recipient_id
          /\ r.log_date < DateOf(out.now) - MissedWindowDays
          /\ r.log_date >= DateOf(out.now) - WeekDays
    /\ \E r \in DOMAIN med_log :
          medications[r.medication_id].recipient_id # out.recipient_id

=============================================================================
